---------------------------- MODULE Spec2Model ----------------------------
(***************************************************************************)
(* A model of the XRB message codec: the serialization and                 *)
(* deserialization code that xrbk_macro generates for structs, requests,   *)
(* replies, events and enums (src/xrbk_macro/src/impls.rs), and the        *)
(* DataSize implementations (src/xrbk_macro/src/definition/expansion/      *)
(* datasize.rs).  A state holds one message definition, one value of it,   *)
(* the bytes written for it and the result of reading bytes back.          *)
(*                                                                         *)
(* The generated code is modelled by what it does when run: `put_u16`,     *)
(* `put_u32`, `get_u16` and `get_u32` are those of the `bytes` crate       *)
(* (big-endian, and a `get`/`advance` past the end of the buffer panics).  *)
(* `write_to`/`read_from` of a field's own type and `reader.read()` come   *)
(* from the cornflakes crate, which is not part of the sources: they are   *)
(* modelled after the specification (fixed width, little-endian,           *)
(* UnexpectedEof when too few bytes remain).                               *)
(***************************************************************************)
EXTENDS Integers, Sequences, FiniteSets, TLC

(***************************************************************************)
(* Bounds of the model.                                                    *)
(***************************************************************************)
MaxItems == 2
MaxVariants == 3
MaxDiscrim == 3
MaxElements == 3
MaxFlags == 3
MaxDecls == 2

(***************************************************************************)
(* Opcodes and codes of the modelled messages (the values the generated    *)
(* major_opcode(), minor_opcode() and code() return).                      *)
(***************************************************************************)
major_opcode == 130
minor_opcode == 3
code == 34

U8Values == {0, 7}
U32Values == {7, 16909060}
SequenceValues == {42, 258}

NoDiscriminant == -1

(***************************************************************************)
(* Byte sequences.                                                         *)
(***************************************************************************)
Pow256(n) == 256 ^ n

\* bytes::BufMut::put_u8
put_u8(x) == << x % 256 >>

\* bytes::BufMut::put_u16: two bytes, most significant first
put_u16(x) == << (x \div 256) % 256, x % 256 >>

\* bytes::BufMut::put_u32: four bytes, most significant first
put_u32(x) ==
    << (x \div Pow256(3)) % 256, (x \div Pow256(2)) % 256,
       (x \div 256) % 256, x % 256 >>

\* bytes::BufMut::put_many(0u8, n)
put_many(n) == [i \in 1..n |-> 0]

\* the value bytes::Buf::get_u16 returns at position pos
get_u16(b, pos) == b[pos] * 256 + b[pos + 1]

\* the value bytes::Buf::get_u32 returns at position pos
get_u32(b, pos) ==
    b[pos] * Pow256(3) + b[pos + 1] * Pow256(2) + b[pos + 2] * 256 + b[pos + 3]

\* cornflakes Writable::write_to of an unsigned integer of `width` bytes
write_to(width, x) == [i \in 1..width |-> (x \div Pow256(i - 1)) % 256]

\* the value cornflakes Readable::read_from decodes from `width` bytes at pos
RECURSIVE read_from(_, _, _)
read_from(width, b, pos) ==
    IF width = 0 THEN 0
    ELSE b[pos] + 256 * read_from(width - 1, b, pos + 1)

Remaining(b, pos) == Len(b) - pos + 1

(***************************************************************************)
(* Items.  An item is a Field, a Let, or unused bytes (Unit or Array).     *)
(* A source is the expression of a Let or of an Array of unused bytes:     *)
(* either a constant or the value of a field declared before it.           *)
(***************************************************************************)
NoSource == [op |-> "none", arg |-> 0, k |-> 0]

SourceSet ==
    {[op |-> "const", arg |-> 0, k |-> 2]}
    \cup {[op |-> "field", arg |-> j, k |-> 0] : j \in 1..(MaxItems - 1)}

FieldItems ==
    {[kind |-> "Field", width |-> w, metabyte |-> FALSE, source |-> NoSource]
        : w \in {1, 4}}
    \cup {[kind |-> "Field", width |-> 1, metabyte |-> TRUE, source |-> NoSource]}

LetItems ==
    {[kind |-> "Let", width |-> 1, metabyte |-> FALSE, source |-> s]
        : s \in SourceSet}
    \cup {[kind |-> "Let", width |-> 1, metabyte |-> TRUE,
           source |-> [op |-> "const", arg |-> 0, k |-> 2]]}

UnusedItems ==
    {[kind |-> "Unit", width |-> 0, metabyte |-> mb, source |-> NoSource]
        : mb \in BOOLEAN}
    \cup {[kind |-> "Array", width |-> 0, metabyte |-> FALSE, source |-> s]
        : s \in SourceSet}

ItemSet == FieldItems \cup LetItems \cup UnusedItems

\* Item::is_metabyte
is_metabyte(item) == item.metabyte

\* An accepted item list: at most one metabyte item, and a source names a
\* field declared before the item that uses it (in the lists modelled, a
\* field of one byte, which keeps the counts of unused bytes small).
WellFormedItems(items) ==
    /\ Cardinality({i \in DOMAIN items : is_metabyte(items[i])}) <= 1
    /\ \A i \in DOMAIN items :
          items[i].source.op = "field" =>
              /\ items[i].source.arg < i
              /\ items[items[i].source.arg].kind = "Field"
              /\ items[items[i].source.arg].width = 1

ItemLists ==
    UNION {{items \in [1..n -> ItemSet] : WellFormedItems(items)}
              : n \in 0..MaxItems}

\* The values of the fields of an item list: one entry per item, 0 for an
\* item that is not a field.
FieldValues(items) ==
    {f \in [DOMAIN items -> U8Values \cup U32Values] :
        \A i \in DOMAIN items :
            IF items[i].kind = "Field"
            THEN f[i] \in (IF items[i].width = 1 THEN U8Values ELSE U32Values)
            ELSE f[i] = 0}

\* The value of a source expression applied to its sibling arguments.
SourceValue(source, fields) ==
    IF source.op = "field" THEN fields[source.arg] ELSE source.k

(***************************************************************************)
(* Serialization of items (impls.rs, ItemSerializeTokens).                 *)
(***************************************************************************)
Field_serialize(item, i, fields) == write_to(item.width, fields[i])

Let_serialize(item, fields) ==
    write_to(item.width, SourceValue(item.source, fields))

\* A writer of unused bytes that emits one byte more than the source
\* expression of an array tells.
Unused_serialize_OneMore(item, fields) ==
    IF item.kind = "Unit" THEN put_u8(0)
    ELSE put_many(SourceValue(item.source, fields) + 1)

Unused_serialize(item, fields) ==
    IF item.kind = "Unit" THEN put_u8(0)
    ELSE put_many(SourceValue(item.source, fields))

Item_serialize(item, i, fields) ==
    CASE item.kind = "Field" -> Field_serialize(item, i, fields)
      [] item.kind = "Let" -> Let_serialize(item, fields)
      [] OTHER -> Unused_serialize(item, fields)

\* The items from item i on, each one written before the items declared
\* before it.
RECURSIVE Items_serialize_Reversed(_, _, _, _)
Items_serialize_Reversed(items, i, fields, skip) ==
    IF i > Len(items) THEN << >>
    ELSE Items_serialize_Reversed(items, i + 1, fields, skip)
         \o (IF skip /\ is_metabyte(items[i]) THEN << >>
             ELSE Item_serialize(items[i], i, fields))

\* `for (id, item) in items.pairs() { item.serialize_tokens(tokens, id) }`,
\* from item i on; with skip, items flagged metabyte are filtered out.
RECURSIVE Items_serialize(_, _, _, _)
Items_serialize(items, i, fields, skip) ==
    IF i > Len(items) THEN << >>
    ELSE (IF skip /\ is_metabyte(items[i]) THEN << >>
          ELSE Item_serialize(items[i], i, fields))
         \o Items_serialize(items, i + 1, fields, skip)

\* The index of the first item flagged metabyte, 0 when there is none.
MetabyteIndex(items) ==
    IF \E i \in DOMAIN items : is_metabyte(items[i])
    THEN CHOOSE i \in DOMAIN items :
            /\ is_metabyte(items[i])
            /\ \A j \in 1..(i - 1) : ~is_metabyte(items[j])
    ELSE 0

\* Items::metabyte_serialize_tokens
metabyte_serialize_tokens(items, fields) ==
    IF MetabyteIndex(items) # 0
    THEN Item_serialize(items[MetabyteIndex(items)], MetabyteIndex(items), fields)
    ELSE put_u8(0)


(***************************************************************************)
(* Deserialization of items (impls.rs, ItemDeserializeTokens).  A reader   *)
(* is [status, pos, fields]: the position of the cursor in the bytes b,    *)
(* and the fields read so far.  The field's type is read with the          *)
(* cornflakes Readable of the declared type, as the comment in the         *)
(* generator describes.                                                    *)
(***************************************************************************)
NewReader(items, start) ==
    [status |-> "ok", pos |-> start, fields |-> [i \in DOMAIN items |-> 0]]

\* bytes::Buf::advance(n): panics when fewer than n bytes remain
advance(b, r, n) ==
    IF r.status # "ok" THEN r
    ELSE IF Remaining(b, r.pos) < n THEN [r EXCEPT !.status = "panic"]
    ELSE [r EXCEPT !.pos = r.pos + n]

\* `let name = <type as Readable>::read_from(reader)?;`
Field_deserialize(item, i, b, r) ==
    IF Remaining(b, r.pos) < item.width
    THEN [r EXCEPT !.status = "UnexpectedEof"]
    ELSE [r EXCEPT !.fields[i] = read_from(item.width, b, r.pos),
                   !.pos = r.pos + item.width]

\* `let name: type = reader.read()?;`: the value is read and not stored
Let_deserialize(item, b, r) ==
    IF Remaining(b, r.pos) < item.width
    THEN [r EXCEPT !.status = "UnexpectedEof"]
    ELSE [r EXCEPT !.pos = r.pos + item.width]

\* A reader of unused bytes that looks at the single byte it skips and
\* rejects a value other than 0.
Unused_deserialize_Checked(item, b, r) ==
    IF item.kind = "Unit"
    THEN IF Remaining(b, r.pos) >= 1 /\ b[r.pos] # 0
         THEN [r EXCEPT !.status = "InvalidData"]
         ELSE advance(b, r, 1)
    ELSE advance(b, r, SourceValue(item.source, r.fields))

Unused_deserialize(item, b, r) ==
    IF item.kind = "Unit" THEN advance(b, r, 1)
    ELSE advance(b, r, SourceValue(item.source, r.fields))

Item_deserialize(item, i, b, r) ==
    IF r.status # "ok" THEN r
    ELSE CASE item.kind = "Field" -> Field_deserialize(item, i, b, r)
           [] item.kind = "Let" -> Let_deserialize(item, b, r)
           [] OTHER -> Unused_deserialize(item, b, r)

\* `for (id, item) in items.pairs() { item.deserialize_tokens(tokens, id) }`
RECURSIVE Items_deserialize(_, _, _, _, _)
Items_deserialize(items, i, b, r, skip) ==
    IF i > Len(items) THEN r
    ELSE Items_deserialize(items, i + 1, b,
            IF skip /\ is_metabyte(items[i]) THEN r
            ELSE Item_deserialize(items[i], i, b, r),
            skip)

\* Items::metabyte_deserialize_tokens
metabyte_deserialize_tokens(items, b, r) ==
    IF MetabyteIndex(items) # 0
    THEN Item_deserialize(items[MetabyteIndex(items)], MetabyteIndex(items), b, r)
    ELSE advance(b, r, 1)

\* `let _x_ = reader.get_u16();` / `reader.get_u32();` of n bytes
get_bytes(b, r, n) == advance(b, r, n)


(***************************************************************************)
(* Definitions and values.  A definition is a Struct, a Request (with or   *)
(* without a minor opcode), a Reply (`sequence` is FALSE when it opted out *)
(* of the sequence field), an Event (`sequence` tells whether its content  *)
(* has a sequence element, which only the DataSize expansion consults) or  *)
(* an Enum with its variants.                                              *)
(***************************************************************************)
MessageKinds == {"Request", "Reply", "Event"}

MessageDefs ==
    {[kind |-> k, minor |-> m, sequence |-> s, items |-> items, variants |-> << >>]
        : k \in {"Struct"} \cup MessageKinds, m \in BOOLEAN, s \in BOOLEAN,
          items \in ItemLists}

ValidMessageDef(d) ==
    /\ d.minor => d.kind = "Request"
    /\ d.sequence => d.kind \in {"Reply", "Event"}

VariantItemLists ==
    {<< >>,
     << [kind |-> "Field", width |-> 1, metabyte |-> FALSE, source |-> NoSource],
        [kind |-> "Unit", width |-> 0, metabyte |-> FALSE, source |-> NoSource] >>}

VariantSet ==
    [discriminant : {NoDiscriminant} \cup (0..MaxDiscrim), items : VariantItemLists]

EnumDefs ==
    {[kind |-> "Enum", minor |-> FALSE, sequence |-> FALSE, items |-> << >>,
      variants |-> vs]
        : vs \in UNION {[1..n -> VariantSet] : n \in 1..MaxVariants}}

\* The enum `A = 0, B, C = 5, D` of the discriminant dispatch scenario.
ExampleEnum ==
    [kind |-> "Enum", minor |-> FALSE, sequence |-> FALSE, items |-> << >>,
     variants |->
        << [discriminant |-> 0, items |-> << >>],
           [discriminant |-> NoDiscriminant, items |-> << >>],
           [discriminant |-> 5, items |-> << >>],
           [discriminant |-> NoDiscriminant, items |-> << >>] >>]

\* Whether the generated struct has a `_sequence_` field
\* (Items::fields_to_tokens: ExpandMode::Reply { has_sequence } and
\* ExpandMode::Event).
has_sequence(d) ==
    \/ d.kind = "Reply" /\ d.sequence
    \/ d.kind = "Event"

NoValue == [sequence |-> 0, fields |-> << >>, variant |-> 0]

Values(d) ==
    IF d.kind = "Enum"
    THEN UNION {{[sequence |-> 0, fields |-> f, variant |-> n]
                    : f \in FieldValues(d.variants[n].items)}
                   : n \in DOMAIN d.variants}
    ELSE {[sequence |-> s, fields |-> f, variant |-> 0]
            : s \in (IF has_sequence(d) THEN SequenceValues ELSE {0}),
              f \in FieldValues(d.items)}

(***************************************************************************)
(* The members of the generated struct (items.rs).  A member is the        *)
(* `_sequence_` field or the field declared as item `index`.               *)
(***************************************************************************)
SequenceMember == [name |-> "_sequence_", index |-> 0]

FieldMember(i) == [name |-> "field", index |-> i]

\* `for pair in items.pairs() { if let Item::Field(field) = item { ... } }`,
\* from item i on
RECURSIVE FieldMembers(_, _)
FieldMembers(items, i) ==
    IF i > Len(items) THEN << >>
    ELSE (IF items[i].kind = "Field" THEN << FieldMember(i) >> ELSE << >>)
         \o FieldMembers(items, i + 1)

\* ToTokens for Items: the fields of the struct definition
Items_to_tokens(d) == FieldMembers(d.items, 1)

\* Items::fields_to_tokens: the pattern and the constructor
fields_to_tokens(d) ==
    (IF has_sequence(d) THEN << SequenceMember >> ELSE << >>)
    \o FieldMembers(d.items, 1)

(***************************************************************************)
(* The message traits (impls.rs, impl_request_tokens, impl_reply_tokens).  *)
(***************************************************************************)
\* Request::length(&self)
Request_length(d, val) == 0

\* Reply::length(&self)
Reply_length(d, val) == 0

\* Reply::sequence(&self)
Reply_sequence(d, val) ==
    IF d.sequence THEN [some |-> TRUE, val |-> val.sequence]
    ELSE [some |-> FALSE, val |-> 0]

\* Event::sequence(&self)
Event_sequence(d, val) == val.sequence

(***************************************************************************)
(* The generated Writable implementations.  The result keeps the bytes of  *)
(* each part of the header apart; the bytes written are their              *)
(* concatenation, in this order.                                           *)
(***************************************************************************)
Written(w) == w.tag \o w.metabyte \o w.sequence \o w.length \o w.items

\* The bytes the metabyte position of a Request gets.
Request_metabyte(d, val) ==
    IF d.minor THEN put_u16(minor_opcode)
    ELSE metabyte_serialize_tokens(d.items, val.fields)

\* The bytes written for the length of a Reply.
Reply_put_length(d, val) == put_u16(Reply_length(d, val))

Struct_write(d, val) ==
    [tag |-> << >>, metabyte |-> << >>, sequence |-> << >>, length |-> << >>,
     items |-> Items_serialize(d.items, 1, val.fields, FALSE)]

Request_write(d, val) ==
    [tag |-> put_u8(major_opcode),
     metabyte |-> Request_metabyte(d, val),
     sequence |-> << >>,
     length |-> put_u16(Request_length(d, val)),
     items |-> Items_serialize(d.items, 1, val.fields, TRUE)]

Reply_write(d, val) ==
    [tag |-> put_u8(1),
     metabyte |-> metabyte_serialize_tokens(d.items, val.fields),
     sequence |-> IF d.sequence THEN put_u16(val.sequence) ELSE << >>,
     length |-> Reply_put_length(d, val),
     items |-> Items_serialize(d.items, 1, val.fields, TRUE)]

Event_write(d, val) ==
    [tag |-> put_u8(code),
     metabyte |-> metabyte_serialize_tokens(d.items, val.fields),
     sequence |-> put_u16(val.sequence),
     length |-> << >>,
     items |-> Items_serialize(d.items, 1, val.fields, TRUE)]


(***************************************************************************)
(* The generated Readable implementations, reading the bytes b with the    *)
(* cursor at position start.  The result tells how the read ended, where   *)
(* the cursor is left, the value constructed and how many bytes were       *)
(* consumed for each part of the header.                                   *)
(***************************************************************************)
ReadResult(start, r, seq, variant, consumed, discrim) ==
    [status |-> r.status, start |-> start, pos |-> r.pos,
     value |-> [sequence |-> seq, fields |-> r.fields, variant |-> variant],
     consumed |-> consumed, d |-> discrim]

NoResult ==
    [status |-> "none", start |-> 0, pos |-> 0, value |-> NoValue,
     consumed |-> [metabyte |-> 0, sequence |-> 0, length |-> 0], d |-> 0]

Struct_read(d, b, start) ==
    LET r0 == NewReader(d.items, start)
        r1 == Items_deserialize(d.items, 1, b, r0, FALSE)
    IN  ReadResult(start, r1, 0, 0,
                   [metabyte |-> 0, sequence |-> 0, length |-> 0], 0)

\* A Request reader that trusts the length field: it fails unless the length
\* read is the 0 that Request::length returns.
Request_read_UsesLength(d, b, start) ==
    LET r0 == NewReader(d.items, start)
        r1 == IF d.minor THEN r0
              ELSE metabyte_deserialize_tokens(d.items, b, r0)
        r2 == get_bytes(b, r1, 2)
        r3 == IF r2.status = "ok" /\ get_u16(b, r1.pos) # 0
              THEN [r2 EXCEPT !.status = "InvalidData"]
              ELSE Items_deserialize(d.items, 1, b, r2, TRUE)
    IN  ReadResult(start, r3, 0, 0,
                   [metabyte |-> r1.pos - r0.pos, sequence |-> 0,
                    length |-> r2.pos - r1.pos], 0)

Request_read(d, b, start) ==
    LET r0 == NewReader(d.items, start)
        r1 == IF d.minor THEN r0
              ELSE metabyte_deserialize_tokens(d.items, b, r0)
        r2 == get_bytes(b, r1, 2)
        r3 == Items_deserialize(d.items, 1, b, r2, TRUE)
    IN  ReadResult(start, r3, 0, 0,
                   [metabyte |-> r1.pos - r0.pos, sequence |-> 0,
                    length |-> r2.pos - r1.pos], 0)

\* The number of bytes the generated Reply reader takes for the length.
Reply_get_length == 4

Reply_read(d, b, start) ==
    LET r0 == NewReader(d.items, start)
        r1 == metabyte_deserialize_tokens(d.items, b, r0)
        r2 == IF d.sequence THEN get_bytes(b, r1, 2) ELSE r1
        seq == IF d.sequence /\ r2.status = "ok" THEN get_u16(b, r1.pos) ELSE 0
        r3 == get_bytes(b, r2, Reply_get_length)
        r4 == Items_deserialize(d.items, 1, b, r3, TRUE)
    IN  ReadResult(start, r4, seq, 0,
                   [metabyte |-> r1.pos - r0.pos, sequence |-> r2.pos - r1.pos,
                    length |-> r3.pos - r2.pos], 0)

Event_read(d, b, start) ==
    LET r0 == NewReader(d.items, start)
        r1 == metabyte_deserialize_tokens(d.items, b, r0)
        r2 == get_bytes(b, r1, 2)
        seq == IF r2.status = "ok" THEN get_u16(b, r1.pos) ELSE 0
        r3 == Items_deserialize(d.items, 1, b, r2, TRUE)
    IN  ReadResult(start, r3, seq, 0,
                   [metabyte |-> r1.pos - r0.pos, sequence |-> r2.pos - r1.pos,
                    length |-> 0], 0)

(***************************************************************************)
(* CurrentableTime (src/common/wrapper.rs): CurrentTime or Timestamp(t).   *)
(* In a value, variant 1 is CurrentTime and variant 2 is Timestamp of      *)
(* fields[1].  The timestamp is written by the Writable of Timestamp, a    *)
(* fixed-width integer.                                                    *)
(***************************************************************************)
TimestampValues == {0, 7, 16909060}

CurrentableTimeDef ==
    [kind |-> "CurrentableTime", minor |-> FALSE, sequence |-> FALSE,
     items |-> << >>, variants |-> << >>]

CurrentableTimeValues ==
    {[sequence |-> 0, fields |-> << >>, variant |-> 1]}
    \cup {[sequence |-> 0, fields |-> << t >>, variant |-> 2]
            : t \in TimestampValues}

\* StaticDataSize for CurrentableTime
CurrentableTime_data_size(val) == 4

\* Writable for CurrentableTime
CurrentableTime_write_to(val) ==
    [tag |-> << >>, metabyte |-> << >>, sequence |-> << >>, length |-> << >>,
     items |-> IF val.variant = 1 THEN put_u32(0)
               ELSE write_to(4, val.fields[1])]

\* Readable for CurrentableTime: `match buf.get_u32()`, which panics when
\* fewer than 4 bytes remain
CurrentableTime_read_from(b, start) ==
    LET none == [metabyte |-> 0, sequence |-> 0, length |-> 0]
    IN  IF Remaining(b, start) < 4
        THEN ReadResult(start,
                [status |-> "panic", pos |-> start, fields |-> << >>],
                0, 0, none, 0)
        ELSE IF get_u32(b, start) = 0
        THEN ReadResult(start,
                [status |-> "ok", pos |-> start + 4, fields |-> << >>],
                0, 1, none, 0)
        ELSE ReadResult(start,
                [status |-> "ok", pos |-> start + 4,
                 fields |-> << get_u32(b, start) >>],
                0, 2, none, 0)

(***************************************************************************)
(* DataSize (datasize.rs).  The size of one element is that of the         *)
(* specification: the fixed size of a field or let element, one byte for   *)
(* a single unused byte, the computed count for an array of unused bytes.  *)
(***************************************************************************)
Element_datasize(item, fields) ==
    CASE item.kind \in {"Field", "Let"} -> item.width
      [] item.kind = "Unit" -> 1
      [] OTHER -> SourceValue(item.source, fields)

\* `for element in content { ... element.datasize_tokens(...) }`; with skip,
\* the metabyte element is left out.
RECURSIVE Elements_datasize(_, _, _, _)
Elements_datasize(items, i, fields, skip) ==
    IF i > Len(items) THEN 0
    ELSE (IF skip /\ is_metabyte(items[i]) THEN 0
          ELSE Element_datasize(items[i], fields))
         + Elements_datasize(items, i + 1, fields, skip)

Struct_data_size(d, val) == 0 + Elements_datasize(d.items, 1, val.fields, FALSE)

Request_data_size(d, val) == 4 + Elements_datasize(d.items, 1, val.fields, TRUE)

Reply_data_size(d, val) == 8 + Elements_datasize(d.items, 1, val.fields, TRUE)

\* `if content.sequence_element().is_some() { 4 } else { 1 }`
Event_header_datasize(d) == IF d.sequence THEN 4 ELSE 1

Event_data_size(d, val) ==
    Event_header_datasize(d) + Elements_datasize(d.items, 1, val.fields, TRUE)

\* Metadata::impl_datasize
data_size(d, val) ==
    CASE d.kind = "Struct" -> Struct_data_size(d, val)
      [] d.kind = "Request" -> Request_data_size(d, val)
      [] d.kind = "Reply" -> Reply_data_size(d, val)
      [] d.kind = "Event" -> Event_data_size(d, val)
      [] d.kind = "CurrentableTime" -> CurrentableTime_data_size(val)


(***************************************************************************)
(* Enums (impls.rs, Enum::serialize_tokens and Enum::deserialize_tokens).  *)
(* The discriminant tokens of a variant are an expression followed by      *)
(* `+ 1`s: a sequence of integers whose value is their sum.                *)
(***************************************************************************)
RECURSIVE TokensValue(_)
TokensValue(tokens) ==
    IF tokens = << >> THEN 0 ELSE Head(tokens) + TokensValue(Tail(tokens))

\* serialize_discrim without the reset to an explicit discriminant.
serialize_discrim_NoReset(variant, discrim) == discrim

\* `if let Some((_, expr)) = &variant.discriminant { discrim = expr... }`
\* in Enum::serialize_tokens
serialize_discrim(variant, discrim) ==
    IF variant.discriminant # NoDiscriminant THEN << variant.discriminant >>
    ELSE discrim

\* The discriminant tokens of the match arms of write_to, from variant i on.
RECURSIVE Enum_serialize_arms(_, _, _)
Enum_serialize_arms(variants, i, discrim) ==
    IF i > Len(variants) THEN << >>
    ELSE LET this == serialize_discrim(variants[i], discrim)
         IN  << this >> \o Enum_serialize_arms(variants, i + 1, Append(this, 1))

\* deserialize_discrim without the reset to an explicit discriminant.
deserialize_discrim_NoReset(variant, discrim) == discrim

\* the same step in Enum::deserialize_tokens
deserialize_discrim(variant, discrim) ==
    IF variant.discriminant # NoDiscriminant THEN << variant.discriminant >>
    ELSE discrim

\* The discriminant tokens of the match arms of read_from, from variant i on.
RECURSIVE Enum_deserialize_arms(_, _, _)
Enum_deserialize_arms(variants, i, discrim) ==
    IF i > Len(variants) THEN << >>
    ELSE LET this == deserialize_discrim(variants[i], discrim)
         IN  << this >> \o Enum_deserialize_arms(variants, i + 1, Append(this, 1))

Enum_write(d, val) ==
    LET arms == Enum_serialize_arms(d.variants, 1, << 0 >>)
    IN  [tag |-> write_to(1, TokensValue(arms[val.variant])),
         metabyte |-> << >>, sequence |-> << >>, length |-> << >>,
         items |-> Items_serialize(d.variants[val.variant].items, 1,
                                   val.fields, FALSE)]

\* A match that takes the last arm whose discriminant is x.
Enum_match_Last(arms, x) ==
    IF \E i \in DOMAIN arms : TokensValue(arms[i]) = x
    THEN CHOOSE i \in DOMAIN arms :
            /\ TokensValue(arms[i]) = x
            /\ \A j \in (i + 1)..Len(arms) : TokensValue(arms[j]) # x
    ELSE 0

\* The arm `match reader.read::<u8>()?` takes for the byte x: the first arm
\* whose discriminant is x, 0 for the `other_discrim` arm.
Enum_match(arms, x) ==
    IF \E i \in DOMAIN arms : TokensValue(arms[i]) = x
    THEN CHOOSE i \in DOMAIN arms :
            /\ TokensValue(arms[i]) = x
            /\ \A j \in 1..(i - 1) : TokensValue(arms[j]) # x
    ELSE 0

Enum_read(d, b, start) ==
    LET arms == Enum_deserialize_arms(d.variants, 1, << 0 >>)
        none == [metabyte |-> 0, sequence |-> 0, length |-> 0]
    IN  IF Remaining(b, start) < 1
        THEN ReadResult(start,
                [status |-> "UnexpectedEof", pos |-> start, fields |-> << >>],
                0, 0, none, 0)
        ELSE LET n == Enum_match(arms, b[start])
             IN  IF n = 0
                 THEN ReadResult(start,
                        [status |-> "UnrecognizedDiscriminant",
                         pos |-> start + 1, fields |-> << >>],
                        0, 0, none, b[start])
                 ELSE ReadResult(start,
                        Items_deserialize(d.variants[n].items, 1, b,
                            NewReader(d.variants[n].items, start + 1), FALSE),
                        0, n, none, b[start])

(***************************************************************************)
(* Parsing of the elements of a definition (element/parsing.rs).  A        *)
(* declared element is a field, a let element, a single unused byte or an  *)
(* array of unused bytes, with or without a metabyte attribute and a       *)
(* sequence attribute; the source of a let element may name a field by its *)
(* index (arg, 0 when it names none).  The parser is the state of          *)
(* Elements::parse_with: the definition type, the elements accepted so     *)
(* far, the indices of the metabyte element and of the sequence field (0   *)
(* for None), the counters, the element parsed last, and the result:       *)
(* "parsing" in the loop, "Ok", or the message of the error returned.      *)
(***************************************************************************)
DefinitionTypes == {"Struct", "Request", "Reply", "Event"}

ArgSet == {0, 1, 2}

ElementDecls ==
    {[kind |-> k, metabyte |-> m, sequence |-> s, arg |-> 0]
        : k \in {"Field", "SingleUnused", "ArrayUnused"},
          m \in BOOLEAN, s \in BOOLEAN}
    \cup {[kind |-> "Let", metabyte |-> m, sequence |-> s, arg |-> a]
            : m \in BOOLEAN, s \in BOOLEAN, a \in ArgSet}

NoElement == [kind |-> "none", metabyte |-> FALSE, sequence |-> FALSE, arg |-> 0]

\* The parser before it is given a definition to parse.
NoParser ==
    [definition_type |-> "none", elements |-> << >>, metabyte_element |-> 0,
     sequence_field |-> 0, field_index |-> 0, unused_index |-> 0,
     last |-> NoElement, result |-> "none"]

\* The locals of Elements::parse_with before the loop.
NewParser(definition_type) ==
    [NoParser EXCEPT !.definition_type = definition_type, !.result = "parsing"]

\* The result of parsing the attributes of an element: the sequence
\* attribute may only be used in replies and events.
ParsedAttributes_parse(e, definition_type) ==
    IF e.sequence /\ definition_type \notin {"Reply", "Event"}
    THEN "sequence attributes are only allowed in replies and events"
    ELSE "Ok"

SingleUnused_parse_with(e) ==
    IF e.sequence
    THEN "sequence attributes are not allowed for singular unused bytes elements"
    ELSE "Ok"

ArrayUnused_parse_with(e) ==
    IF e.metabyte
    THEN "metabyte attributes are not allowed for array-type unused bytes elements"
    ELSE IF e.sequence
    THEN "sequence attributes are not allowed for array-type unused bytes elements"
    ELSE "Ok"

Let_parse_with(e) ==
    IF e.sequence
    THEN "sequence attributes are not allowed for let elements"
    ELSE "Ok"

Field_parse_with(e) == "Ok"

\* Element::parse_with: the attributes, then the element by its kind.
Element_parse_with(e, definition_type) ==
    IF ParsedAttributes_parse(e, definition_type) # "Ok"
    THEN ParsedAttributes_parse(e, definition_type)
    ELSE CASE e.kind = "SingleUnused" -> SingleUnused_parse_with(e)
           [] e.kind = "ArrayUnused" -> ArrayUnused_parse_with(e)
           [] e.kind = "Let" -> Let_parse_with(e)
           [] OTHER -> Field_parse_with(e)

\* A check that lets a second metabyte element pass.
metabyte_check_Never(p, e) == "Ok"

\* `if element.is_metabyte() { if metabyte_element.is_some() { return Err } }`
metabyte_check(p, e) ==
    IF e.metabyte /\ p.metabyte_element # 0
    THEN "no more than one metabyte element is allowed per message"
    ELSE "Ok"

\* A check that lets a second sequence field pass.
sequence_check_Never(p, e) == "Ok"

\* `if let Element::Field(field) = &element && field.is_sequence() { ... }`
sequence_check(p, e) ==
    IF e.kind = "Field" /\ e.sequence /\ p.sequence_field # 0
    THEN "no more than one sequence field is allowed per message"
    ELSE "Ok"

\* One iteration of the loop of Elements::parse_with on the element e.
parse_element(p, e) ==
    LET q == [p EXCEPT !.last = e]
    IN  IF Element_parse_with(e, p.definition_type) # "Ok"
        THEN [q EXCEPT !.result = Element_parse_with(e, p.definition_type)]
        ELSE IF metabyte_check(p, e) # "Ok"
        THEN [q EXCEPT !.result = metabyte_check(p, e)]
        ELSE IF sequence_check(p, e) # "Ok"
        THEN [q EXCEPT !.result = sequence_check(p, e)]
        ELSE [q EXCEPT
                !.metabyte_element =
                    IF e.metabyte THEN Len(p.elements) + 1 ELSE @,
                !.sequence_field =
                    IF e.kind = "Field" /\ e.sequence
                    THEN Len(p.elements) + 1 ELSE @,
                !.field_index = IF e.kind = "Field" THEN @ + 1 ELSE @,
                !.unused_index = IF e.kind = "ArrayUnused" THEN @ + 1 ELSE @,
                !.elements = Append(@, e)]

\* The loop over the elements after the input is consumed: a source
\* argument of a let element must be in the map of the fields parsed.
parse_end(p) ==
    IF \E i \in DOMAIN p.elements :
          /\ p.elements[i].kind = "Let"
          /\ p.elements[i].arg # 0
          /\ p.elements[i].arg > p.field_index
    THEN [p EXCEPT !.result = "unrecognized source argument identifier"]
    ELSE [p EXCEPT !.result = "Ok"]

(***************************************************************************)
(* The bitmasks of xrb/src/proto/bitmasks.rs.  A flag is the value the     *)
(* definition gives it; a bitmask value is a union of flags, 0 when empty. *)
(* The bits that the documentation of a bitmask says must be zero are      *)
(* given by their positions, bit 0 being the least significant.            *)
(***************************************************************************)
BitmaskTypes == {"Event", "PointerEvent", "DeviceEvent", "KeyButtonMask", "KeyMask"}

\* KeyPress => 0x00000001 ... OwnerGrabButton => 0x01000000 (no 0x00200000)
EventFlagValues ==
    {1, 2, 4, 8, 16, 32, 64, 128, 256, 512, 1024, 2048, 4096, 8192, 16384,
     32768, 65536, 131072, 262144, 524288, 1048576, 4194304, 8388608, 16777216}

\* A set of Event flags with a flag in the bits that must be zero.
Event_flags_WithReserved == EventFlagValues \cup {33554432}

Event_flags == EventFlagValues

PointerEvent_flags == EventFlagValues

DeviceEvent_flags == EventFlagValues

\* Shift => 0x0001 ... Button5 => 0x1000
KeyFlagValues ==
    {1, 2, 4, 8, 16, 32, 64, 128, 256, 512, 1024, 2048, 4096}

KeyButtonMask_flags == KeyFlagValues

KeyMask_flags == KeyFlagValues

Flags(type) ==
    CASE type = "Event" -> Event_flags
      [] type = "PointerEvent" -> PointerEvent_flags
      [] type = "DeviceEvent" -> DeviceEvent_flags
      [] type = "KeyButtonMask" -> KeyButtonMask_flags
      [] OTHER -> KeyMask_flags

\* `Bitmask value 0xfe000000 must be zero`, and so on: the positions of the
\* bits of 0xfe000000, 0xffff8003, 0xffffc0b0, 0xe000 and 0xff00.
MustBeZero(type) ==
    CASE type = "Event" -> 25..31
      [] type = "PointerEvent" -> {0, 1} \cup (15..31)
      [] type = "DeviceEvent" -> {4, 5, 7, 14, 15} \cup (16..31)
      [] type = "KeyButtonMask" -> {13, 14, 15}
      [] OTHER -> 8..15

\* Bit k of the value x (x is below 2^31 in the model).
Bit(x, k) == IF k >= 31 THEN 0 ELSE (x \div (2 ^ k)) % 2

\* x | y
RECURSIVE BitOr(_, _)
BitOr(x, y) ==
    IF x = 0 THEN y
    ELSE IF y = 0 THEN x
    ELSE (IF x % 2 = 1 \/ y % 2 = 1 THEN 1 ELSE 0)
         + 2 * BitOr(x \div 2, y \div 2)

\* x & mask == 0, the mask given by the positions of its bits
DisjointFrom(x, maskBits) == \A k \in maskBits : Bit(x, k) = 0

NoBitmask == [type |-> "none", bits |-> 0, count |-> 0]

(***************************************************************************)
(* Items::parse_items (content/items.rs).                                  *)
(***************************************************************************)
(* The input is a token stream: an attribute is one "#" token of its kind,  *)
(* the rest of an item (`()`, `[(); source]`, `let ident: Type = source`,   *)
(* `vis ident: Type` or `vis Type`) is one "item" token, and "," separates  *)
(* items.  The map of known identifiers is used by the parsers of sources   *)
(* and keeps the identifiers as strings.                                    *)
(***************************************************************************)
ItemKinds == {"Field", "Let", "Unit", "Array"}

AttributeKinds == {"metabyte", "context"}

AttributeLists ==
    {<< >>, << "metabyte" >>, << "context" >>,
     << "metabyte", "context" >>, << "context", "metabyte" >>}

Names == {"a", "b"}

ItemDecls ==
    {[kind |-> k, attributes |-> a, name |-> n]
        : k \in {"Field", "Let"}, a \in AttributeLists, n \in Names}
    \cup {[kind |-> k, attributes |-> a, name |-> ""]
            : k \in {"Unit", "Array"}, a \in AttributeLists}

AttributeToken(kind) == [token |-> "#", kind |-> kind, name |-> ""]

ItemToken(decl) == [token |-> "item", kind |-> decl.kind, name |-> decl.name]

CommaToken == [token |-> ",", kind |-> "", name |-> ""]

\* The tokens of one declared item: its attributes, then the item.
ItemTokens(decl) ==
    [i \in 1..Len(decl.attributes) |-> AttributeToken(decl.attributes[i])]
    \o << ItemToken(decl) >>

\* The tokens of a comma-separated list of declared items.
RECURSIVE ListTokens(_)
ListTokens(decls) ==
    IF decls = << >> THEN << >>
    ELSE IF Len(decls) = 1 THEN ItemTokens(decls[1])
    ELSE ItemTokens(decls[1]) \o << CommaToken >> \o ListTokens(Tail(decls))

\* ItemId::Field(FieldId::Ident(ident))
FieldIdent(ident) == [type |-> "Field", field_id |-> "Ident", ident |-> ident, index |-> -1]

\* ItemId::Field(FieldId::Id(index))
FieldIndex(index) == [type |-> "Field", field_id |-> "Id", ident |-> "", index |-> index]

\* ItemId::Unused(None)
UnusedNone == [type |-> "Unused", field_id |-> "", ident |-> "", index |-> -1]

\* ItemId::Unused(Some(index))
UnusedSome(index) == [type |-> "Unused", field_id |-> "", ident |-> "", index |-> index]

\* ItemId::Let(ident)
LetId(ident) == [type |-> "Let", field_id |-> "", ident |-> ident, index |-> -1]

\* FieldId::formatted: format_ident!("__{}__", id) for both kinds of id
FieldId_formatted(id) ==
    IF id.field_id = "Ident" THEN "__" \o id.ident \o "__"
    ELSE "__" \o ToString(id.index) \o "__"

\* ItemId::formatted; "" is None
ItemId_formatted(id) ==
    CASE id.type = "Field" -> FieldId_formatted(id)
      [] id.type = "Unused" ->
            IF id.index = -1 THEN ""
            ELSE "_unused_" \o ToString(id.index) \o "_"
      [] OTHER -> "__" \o id.ident \o "__"

NoParseItems ==
    [named |-> FALSE, declared |-> << >>, input |-> << >>, items |-> << >>,
     map |-> {}, unused_index |-> 0, field_index |-> 0,
     result |-> "none", error |-> ""]

\* The state of parse_items before its loop.
NewParseItems(named, declared, input) ==
    [named |-> named, declared |-> declared, input |-> input, items |-> << >>,
     map |-> {}, unused_index |-> 0, field_index |-> 0,
     result |-> "running", error |-> ""]

\* Attribute::parse_outer: the attributes at the front of the input.
RECURSIVE Attribute_parse_outer(_)
Attribute_parse_outer(input) ==
    IF input # << >> /\ Head(input).token = "#"
    THEN LET more == Attribute_parse_outer(Tail(input))
         IN  [attributes |-> << Head(input).kind >> \o more.attributes,
              rest |-> more.rest]
    ELSE [attributes |-> << >>, rest |-> input]

ParseItemsError(p, message) == [p EXCEPT !.result = "error", !.error = message]

\* `if let Some(attr) = attributes.first() { if !attr.is_metabyte() {..} }
\*  else if let Some(attr) = attributes.get(1) {..}`: the message of the
\* error, "" when there is none.
attribute_check(attributes, what) ==
    IF Len(attributes) >= 1
    THEN IF attributes[1] # "metabyte"
         THEN "only a metabyte attribute is allowed for " \o what \o " items"
         ELSE ""
    ELSE IF Len(attributes) >= 2
    THEN "only zero or one (metabyte) attributes are allowed for " \o what \o " items"
    ELSE ""

\* The unused bytes branch, the input standing at a `(` or a `[`.
parse_unused(p, attributes, rest) ==
    LET check == attribute_check(attributes, "unused")
        unit == [id |-> UnusedNone, kind |-> "Unit",
                 attributes |-> IF attributes = << >> THEN << >>
                                ELSE << attributes[1] >>]
    IN  IF check # "" THEN ParseItemsError(p, check)
        ELSE IF attributes # << >>
        THEN \* unit with attribute: parenthesized! fails on a `[`
             IF Head(rest).kind = "Unit"
             THEN [p EXCEPT !.items = Append(@, unit), !.input = Tail(rest)]
             ELSE ParseItemsError(p, "expected parentheses")
        ELSE IF Head(rest).kind = "Unit"
        THEN [p EXCEPT !.items = Append(@, unit), !.input = Tail(rest)]
        ELSE [p EXCEPT !.items = Append(@, [id |-> UnusedSome(p.unused_index),
                                             kind |-> "Array",
                                             attributes |-> << >>]),
                       !.unused_index = @ + 1,
                       !.input = Tail(rest)]

\* The let branch, the input standing at `let`.
parse_let(p, attributes, rest) ==
    LET check == attribute_check(attributes, "let")
    IN  IF check # "" THEN ParseItemsError(p, check)
        ELSE [p EXCEPT !.items = Append(@, [id |-> LetId(Head(rest).name),
                                             kind |-> "Let",
                                             attributes |->
                                                IF attributes = << >> THEN << >>
                                                ELSE << attributes[1] >>]),
                       !.map = @ \cup {Head(rest).name},
                       !.input = Tail(rest)]

\* The field branch.
parse_field(p, attributes, rest) ==
    IF p.named
    THEN [p EXCEPT !.items = Append(@, [id |-> FieldIdent(Head(rest).name),
                                         kind |-> "Field",
                                         attributes |-> attributes]),
                   !.map = @ \cup {Head(rest).name},
                   !.input = Tail(rest)]
    ELSE [p EXCEPT !.items = Append(@, [id |-> FieldIndex(p.field_index),
                                         kind |-> "Field",
                                         attributes |-> attributes]),
                   !.map = @ \cup {ToString(p.field_index)},
                   !.field_index = @ + 1,
                   !.input = Tail(rest)]

\* `if input.peek(Token![#]) { ... }`: the item at the front of the input is
\* parsed when the input starts with an attribute.
parse_item(p) ==
    IF Head(p.input).token # "#" THEN p
    ELSE LET outer == Attribute_parse_outer(p.input)
             attributes == outer.attributes
             rest == outer.rest
         IN  IF rest = << >> \/ Head(rest).token # "item"
             THEN ParseItemsError(p, "unexpected token")
             ELSE IF Head(rest).kind \in {"Unit", "Array"}
             THEN parse_unused(p, attributes, rest)
             ELSE IF Head(rest).kind = "Let"
             THEN parse_let(p, attributes, rest)
             ELSE parse_field(p, attributes, rest)

\* One turn of `while !input.is_empty()`: the item, then the comma or the
\* break.
parse_items_loop(p) ==
    LET q == parse_item(p)
    IN  IF q.result = "error" THEN q
        ELSE IF q.input = << >> \/ Head(q.input).token # ","
        THEN [q EXCEPT !.result = "ok"]
        ELSE [q EXCEPT !.input = Tail(@)]

(***************************************************************************)
(* The state machine.  A definition and either a value to write or bytes   *)
(* that arrive from the wire; the data size of the value is computed, the  *)
(* value is written, and a reader reads the bytes back.                    *)
(***************************************************************************)
VARIABLES
    def,        \* the definition
    v,          \* the value to write (NoValue when the bytes come from the wire)
    origin,     \* "write" or "wire"
    ds,         \* the result of data_size(), -1 before it is computed
    hdr,        \* the parts written by write_to
    buf,        \* the bytes written or received
    res,        \* the result of read_from
    pc,         \* "defined", "sized", "written", "read"
    sent,       \* the bytes as write_to produced them
    parser,     \* the state of Elements::parse_with
    bitmask,    \* a bitmask value: its type, its bits, the flags united
    parse_items \* the state of Items::parse_items

vars ==
    << def, v, origin, ds, hdr, buf, res, pc, sent, parser, bitmask, parse_items >>

NoHeader ==
    [tag |-> << >>, metabyte |-> << >>, sequence |-> << >>, length |-> << >>,
     items |-> << >>]

WirePayloads == {<< >>, << 7, 9 >>}

Init ==
    /\ \/ /\ def \in {d \in MessageDefs : ValidMessageDef(d)}
                     \cup EnumDefs \cup {ExampleEnum}
          /\ v \in Values(def)
          /\ origin = "write"
       \/ /\ def = CurrentableTimeDef
          /\ v \in CurrentableTimeValues
          /\ origin = "write"
       \/ /\ def \in EnumDefs \cup {ExampleEnum}
          /\ v = NoValue
          /\ origin = "wire"
    /\ ds = -1
    /\ hdr = NoHeader
    /\ buf = << >>
    /\ res = NoResult
    /\ pc = "defined"
    /\ sent = << >>
    /\ parser = NoParser
    /\ bitmask = NoBitmask
    /\ parse_items = NoParseItems

\* value.data_size()
DataSize ==
    /\ pc = "defined"
    /\ origin = "write"
    /\ def.kind # "Enum"
    /\ ds' = data_size(def, v)
    /\ pc' = "sized"
    /\ UNCHANGED << def, v, origin, hdr, buf, res, sent, parser, bitmask, parse_items >>

WriteWith(kind, from, w) ==
    /\ pc = from
    /\ origin = "write"
    /\ def.kind = kind
    /\ hdr' = w
    /\ buf' = Written(w)
    /\ sent' = Written(w)
    /\ pc' = "written"
    /\ UNCHANGED << def, v, origin, ds, res, parser, bitmask, parse_items >>

WriteStruct == WriteWith("Struct", "sized", Struct_write(def, v))

WriteRequest == WriteWith("Request", "sized", Request_write(def, v))

WriteReply == WriteWith("Reply", "sized", Reply_write(def, v))

WriteEvent == WriteWith("Event", "sized", Event_write(def, v))

WriteEnum == WriteWith("Enum", "defined", Enum_write(def, v))

WriteCurrentableTime ==
    WriteWith("CurrentableTime", "sized", CurrentableTime_write_to(v))

\* The bytes of an enum arrive from the wire: a discriminant byte and a payload.
Receive ==
    /\ pc = "defined"
    /\ origin = "wire"
    /\ \E x \in 0..(MaxDiscrim + MaxVariants), payload \in WirePayloads :
          buf' = << x >> \o payload
    /\ pc' = "written"
    /\ UNCHANGED << def, v, origin, ds, hdr, res, sent, parser, bitmask, parse_items >>

\* The values a byte changed on the wire may take.
TamperValues == {1, 99}

\* The reader is given fewer bytes than were written: a prefix of them.
Truncate ==
    /\ pc = "written"
    /\ origin = "write"
    /\ \E n \in 0..(Len(buf) - 1) : buf' = SubSeq(buf, 1, n)
    /\ origin' = "truncated"
    /\ UNCHANGED << def, v, ds, hdr, res, pc, sent, parser, bitmask, parse_items >>

\* One byte of a written message holds another value when it is read.
Tamper ==
    /\ pc = "written"
    /\ origin = "write"
    /\ def.kind # "Enum"
    /\ \E p \in DOMAIN buf :
          \E x \in TamperValues \ {buf[p]} : buf' = [buf EXCEPT ![p] = x]
    /\ origin' = "tampered"
    /\ UNCHANGED << def, v, ds, hdr, res, pc, sent, parser, bitmask, parse_items >>

\* The positions a caller may leave the cursor at before it calls read_from:
\* the first byte, or after the bytes it dispatched on.
Starts(d) ==
    CASE d.kind \in {"Struct", "Enum", "CurrentableTime"} -> {1}
      [] d.kind = "Request" /\ d.minor -> {1, 2, 3}
      [] OTHER -> {1, 2}

ReadWith(kind, r) ==
    /\ pc = "written"
    /\ def.kind = kind
    /\ res' = r
    /\ pc' = "read"
    /\ UNCHANGED << def, v, origin, ds, hdr, buf, sent, parser, bitmask, parse_items >>

ReadStruct == \E s \in Starts(def) : ReadWith("Struct", Struct_read(def, buf, s))

ReadRequest == \E s \in Starts(def) : ReadWith("Request", Request_read(def, buf, s))

ReadReply == \E s \in Starts(def) : ReadWith("Reply", Reply_read(def, buf, s))

ReadEvent == \E s \in Starts(def) : ReadWith("Event", Event_read(def, buf, s))

ReadEnum == \E s \in Starts(def) : ReadWith("Enum", Enum_read(def, buf, s))

ReadCurrentableTime ==
    \E s \in Starts(def) :
        ReadWith("CurrentableTime", CurrentableTime_read_from(buf, s))

Next ==
    \/ DataSize
    \/ WriteStruct
    \/ WriteRequest
    \/ WriteReply
    \/ WriteEvent
    \/ WriteEnum
    \/ WriteCurrentableTime
    \/ Receive
    \/ Truncate
    \/ Tamper
    \/ ReadStruct
    \/ ReadRequest
    \/ ReadReply
    \/ ReadEvent
    \/ ReadEnum
    \/ ReadCurrentableTime

Spec == Init /\ [][Next]_vars

TypeOK ==
    /\ pc \in {"defined", "sized", "written", "read"}
    /\ origin \in {"write", "wire", "truncated", "tampered"}
    /\ \A i \in DOMAIN buf : buf[i] \in 0..255


(***************************************************************************)
(* The parser as a state machine: the elements of a definition are given   *)
(* to it one by one, and the input ends.                                   *)
(***************************************************************************)
ParseInit ==
    /\ def = CurrentableTimeDef
    /\ v = NoValue
    /\ origin = "wire"
    /\ ds = -1
    /\ hdr = NoHeader
    /\ buf = << >>
    /\ res = NoResult
    /\ pc = "defined"
    /\ sent = << >>
    /\ \E definition_type \in DefinitionTypes :
          parser = NewParser(definition_type)
    /\ bitmask = NoBitmask
    /\ parse_items = NoParseItems

\* `while !input.is_empty()`: the next element of the input is parsed
ParseElement ==
    /\ parser.result = "parsing"
    /\ Len(parser.elements) < MaxElements
    /\ \E e \in ElementDecls : parser' = parse_element(parser, e)
    /\ UNCHANGED << def, v, origin, ds, hdr, buf, res, pc, sent, bitmask, parse_items >>

\* the input is empty: the source arguments are checked and the elements
\* returned
ParseEnd ==
    /\ parser.result = "parsing"
    /\ parser' = parse_end(parser)
    /\ UNCHANGED << def, v, origin, ds, hdr, buf, res, pc, sent, bitmask, parse_items >>

ParseNext ==
    \/ ParseElement
    \/ ParseEnd

SpecParse == ParseInit /\ [][ParseNext]_vars

(***************************************************************************)
(* Bitmask values: the empty value of one of the bitmask types, to which   *)
(* flags of the type are united.                                           *)
(***************************************************************************)
BitmaskInit ==
    /\ def = CurrentableTimeDef
    /\ v = NoValue
    /\ origin = "wire"
    /\ ds = -1
    /\ hdr = NoHeader
    /\ buf = << >>
    /\ res = NoResult
    /\ pc = "defined"
    /\ sent = << >>
    /\ parser = NoParser
    /\ parse_items = NoParseItems
    /\ \E type \in BitmaskTypes : bitmask = [type |-> type, bits |-> 0, count |-> 0]

\* `value | Flag`
BitmaskUnion ==
    /\ bitmask.count < MaxFlags
    /\ \E flag \in Flags(bitmask.type) :
          bitmask' = [bitmask EXCEPT !.bits = BitOr(@, flag), !.count = @ + 1]
    /\ UNCHANGED << def, v, origin, ds, hdr, buf, res, pc, sent, parser, parse_items >>

BitmaskNext == BitmaskUnion

SpecBitmask == BitmaskInit /\ [][BitmaskNext]_vars

(***************************************************************************)
(* Items::parse_items over a comma-separated list of declared items, with  *)
(* or without a trailing comma.                                            *)
(***************************************************************************)
DeclLists == UNION {[1..n -> ItemDecls] : n \in 0..MaxDecls}

ParseItemsInit ==
    /\ def = CurrentableTimeDef
    /\ v = NoValue
    /\ origin = "wire"
    /\ ds = -1
    /\ hdr = NoHeader
    /\ buf = << >>
    /\ res = NoResult
    /\ pc = "defined"
    /\ sent = << >>
    /\ parser = NoParser
    /\ bitmask = NoBitmask
    /\ \E named \in BOOLEAN, trailing \in BOOLEAN, declared \in DeclLists :
          parse_items =
              NewParseItems(named, declared,
                  ListTokens(declared)
                  \o (IF trailing /\ declared # << >> THEN << CommaToken >> ELSE << >>))

\* A turn of the loop.
ParseItemsLoop ==
    /\ parse_items.result = "running"
    /\ parse_items.input # << >>
    /\ parse_items' = parse_items_loop(parse_items)
    /\ UNCHANGED << def, v, origin, ds, hdr, buf, res, pc, sent, parser, bitmask >>

\* The loop ends with the input empty: Ok(items).
ParseItemsReturn ==
    /\ parse_items.result = "running"
    /\ parse_items.input = << >>
    /\ parse_items' = [parse_items EXCEPT !.result = "ok"]
    /\ UNCHANGED << def, v, origin, ds, hdr, buf, res, pc, sent, parser, bitmask >>

ParseItemsNext == ParseItemsLoop \/ ParseItemsReturn

SpecParseItems == ParseItemsInit /\ [][ParseItemsNext]_vars

(***************************************************************************)
(* Properties.                                                             *)
(***************************************************************************)
IsWritten == pc \in {"written", "read"} /\ origin = "write"

IsRead == pc = "read" /\ origin = "write"

\* The value of a big-endian byte sequence.
RECURSIVE BigEndianValue(_)
BigEndianValue(b) ==
    IF b = << >> THEN 0
    ELSE BigEndianValue(SubSeq(b, 1, Len(b) - 1)) * 256 + b[Len(b)]

\* The byte a definition puts in the metabyte position when it has no minor
\* opcode: the one-byte encoding of its metabyte item, or 0.
ExpectedMetabyte(d, val) ==
    IF MetabyteIndex(d.items) = 0 THEN 0
    ELSE LET item == d.items[MetabyteIndex(d.items)]
         IN  CASE item.kind = "Field" -> val.fields[MetabyteIndex(d.items)] % 256
               [] item.kind = "Let" -> SourceValue(item.source, val.fields) % 256
               [] OTHER -> 0

\* C1: for every Request, Reply and Event value, reading the bytes that write
\* produced, with the cursor at the first written byte, succeeds, gives back
\* an equal value (sequence number included) and consumes exactly the bytes
\* written.
C1_MessageRoundTrip ==
    (IsRead /\ def.kind \in MessageKinds /\ res.start = 1) =>
        /\ res.status = "ok"
        /\ res.value = v
        /\ res.pos = Len(buf) + 1

\* C2: for every Struct, Request, Reply and Event value, data_size() is the
\* exact number of bytes that write appends to the buffer.
C2_DataSizeIsBytesWritten ==
    (IsWritten /\ def.kind \in {"Struct"} \cup MessageKinds) => ds = Len(buf)

HeaderBytes(kind) == IF kind = "Request" THEN 4 ELSE 8

\* C3: for every Request and Reply value whose encoded size is a multiple of
\* 4, the length field that write emits is (header_bytes + data_size) / 4.
C3_LengthField ==
    (IsWritten /\ def.kind \in {"Request", "Reply"} /\ Len(buf) % 4 = 0) =>
        BigEndianValue(hdr.length) = (HeaderBytes(def.kind) + ds) \div 4

\* C4: a Request is written as 4 header bytes and then the remaining items:
\* the major opcode, the minor opcode if declared and else the metabyte item
\* or 0, the u16 length; the first other item starts at offset 4.
C4_RequestHeader ==
    (IsWritten /\ def.kind = "Request") =>
        /\ Len(buf) >= 4
        /\ buf[1] = major_opcode
        /\ buf[2] = (IF def.minor THEN minor_opcode ELSE ExpectedMetabyte(def, v))
        /\ Len(hdr.length) = 2
        /\ SubSeq(buf, 3, 4) = hdr.length
        /\ SubSeq(buf, 5, Len(buf)) = hdr.items

\* C5: a Reply that did not opt out of the sequence field is written as 8
\* header bytes and then the remaining items: the constant 1, the metabyte
\* item or 0, the u16 sequence, the length as a u32; read consumes the length
\* as the same 4 bytes.
C5_ReplyHeader ==
    (IsWritten /\ def.kind = "Reply" /\ def.sequence) =>
        /\ Len(buf) >= 8
        /\ buf[1] = 1
        /\ buf[2] = ExpectedMetabyte(def, v)
        /\ BigEndianValue(SubSeq(buf, 3, 4)) = v.sequence
        /\ Len(hdr.length) = 4
        /\ SubSeq(buf, 5, 8) = hdr.length
        /\ SubSeq(buf, 9, Len(buf)) = hdr.items
        /\ (pc = "read" /\ res.start = 2) => res.consumed.length = 4

\* C6: an Event is written as 4 header bytes and then the remaining items:
\* the event code, the metabyte item or 0, the u16 sequence; and the header
\* size that data_size accounts for is the same 4 bytes for every Event.
C6_EventHeader ==
    (IsWritten /\ def.kind = "Event") =>
        /\ Len(buf) >= 4
        /\ buf[1] = code
        /\ buf[2] = ExpectedMetabyte(def, v)
        /\ BigEndianValue(SubSeq(buf, 3, 4)) = v.sequence
        /\ SubSeq(buf, 5, Len(buf)) = hdr.items
        /\ ds - Len(hdr.items) = 4

\* C7: for every Request, Reply and Event, write puts exactly one byte in
\* the metabyte position (the metabyte item, a zero byte, or the minor opcode
\* of a Request that declares one), and read consumes or skips exactly one
\* byte for it.
C7_MetabyteExclusivity ==
    (IsWritten /\ def.kind \in MessageKinds) =>
        /\ Len(hdr.metabyte) = 1
        /\ hdr.metabyte[1] =
              (IF def.minor THEN minor_opcode ELSE ExpectedMetabyte(def, v))
        /\ pc = "read" => res.consumed.metabyte = 1

\* C10: a Reply that opted out of the sequence field neither writes nor reads
\* the 2-byte sequence slot and its sequence() is None; a Reply that did not
\* opt out always writes and reads the slot, and sequence() is Some of the
\* value; decoding the bytes written for a Reply gives back its sequence.
C10_SequenceOptOut ==
    (IsWritten /\ def.kind = "Reply") =>
        IF def.sequence
        THEN /\ hdr.sequence = put_u16(v.sequence)
             /\ Reply_sequence(def, v) = [some |-> TRUE, val |-> v.sequence]
             /\ pc = "read" => res.consumed.sequence = 2
             /\ (pc = "read" /\ res.start = 2) =>
                   /\ res.status = "ok"
                   /\ Reply_sequence(def, res.value)
                        = [some |-> TRUE, val |-> v.sequence]
        ELSE /\ hdr.sequence = << >>
             /\ ~Reply_sequence(def, v).some
             /\ pc = "read" => res.consumed.sequence = 0


\* The resolved discriminant of variant i: its explicit value if given,
\* otherwise that of the previous variant plus 1, starting at 0.
RECURSIVE ResolvedDiscriminant(_, _)
ResolvedDiscriminant(variants, i) ==
    IF variants[i].discriminant # NoDiscriminant THEN variants[i].discriminant
    ELSE IF i = 1 THEN 0
    ELSE ResolvedDiscriminant(variants, i - 1) + 1

\* The variants whose resolved discriminant is x.
VariantsOf(variants, x) ==
    {i \in DOMAIN variants : ResolvedDiscriminant(variants, i) = x}

\* The number of bytes the items of a variant take (its items have fixed sizes).
VariantSize(items) ==
    Elements_datasize(items, 1, [i \in DOMAIN items |-> 0], FALSE)

ItemOffset(items, i, fields) ==
    Elements_datasize(SubSeq(items, 1, i - 1), 1, fields, FALSE)

\* write emits the resolved discriminant as one byte and then the items of
\* the variant in declaration order.
EnumBytesInOrder ==
    LET items == def.variants[v.variant].items
    IN  /\ buf[1] = ResolvedDiscriminant(def.variants, v.variant)
        /\ Len(buf) = 1 + VariantSize(items)
        /\ \A i \in DOMAIN items :
              items[i].kind = "Field" =>
                  SubSeq(buf, 2 + ItemOffset(items, i, v.fields),
                              1 + ItemOffset(items, i, v.fields) + items[i].width)
                    = write_to(items[i].width, v.fields[i])

\* C9 as stated: for every enum value, write emits the resolved discriminant
\* as one byte and then the items of the variant in declaration order, and
\* read(write(v)) is the same variant with equal fields.
C9_EnumRoundTrip ==
    (IsRead /\ def.kind = "Enum") =>
        /\ EnumBytesInOrder
        /\ res.status = "ok"
        /\ res.value = v
        /\ res.pos = Len(buf) + 1

\* Variant n is the earliest variant with its resolved discriminant.
EarliestOfDiscriminant(variants, n) ==
    \A j \in 1..(n - 1) :
        ResolvedDiscriminant(variants, j) # ResolvedDiscriminant(variants, n)

\* C9 amended: for every enum value, write emits the resolved discriminant as
\* one byte and then the items of the variant in declaration order; read
\* selects the earliest variant with that resolved discriminant, so
\* read(write(v)) is the same variant with equal fields for every variant
\* that shares its resolved discriminant with no earlier variant.
C9_EnumRoundTripAmended ==
    (IsRead /\ def.kind = "Enum") =>
        /\ EnumBytesInOrder
        /\ res.value.variant \in VariantsOf(def.variants, buf[1])
        /\ EarliestOfDiscriminant(def.variants, res.value.variant)
        /\ EarliestOfDiscriminant(def.variants, v.variant) =>
              /\ res.status = "ok"
              /\ res.value = v
              /\ res.pos = Len(buf) + 1

\* C9 witness: the second variant of an enum, with an explicit discriminant
\* and a field of value 7, was written and read back.
C9_Witness ==
    /\ IsRead
    /\ def.kind = "Enum"
    /\ v.variant = 2
    /\ def.variants[2].discriminant = 3
    /\ def.variants[2].items # << >>
    /\ v.fields[1] = 7
    /\ buf = << 3, 7, 0 >>
    /\ res.status = "ok"
    /\ res.value = v

(***************************************************************************)
(* Byte order, short input, the metabyte position and the order of items.  *)
(***************************************************************************)
\* C11: every u16 and u32 that the codec writes is little-endian (least
\* significant byte first) and is read back from the bytes in that same
\* order: the sequence number (42 is written as the bytes 42, 0), the length
\* field, and the u32 of CurrentableTime.
C11_LittleEndian ==
    /\ (IsWritten /\ def.kind \in {"Reply", "Event"} /\ hdr.sequence # << >>) =>
          /\ hdr.sequence = write_to(2, v.sequence)
          /\ v.sequence = 42 => hdr.sequence = << 42, 0 >>
    /\ (IsWritten /\ def.kind = "Request") =>
          hdr.length = write_to(2, Request_length(def, v))
    /\ (IsRead /\ def.kind \in {"Reply", "Event"} /\ res.consumed.sequence = 2) =>
          res.value.sequence
              = read_from(2, buf, res.start + res.consumed.metabyte)
    /\ (IsWritten /\ def.kind = "CurrentableTime") =>
          hdr.items = write_to(4, IF v.variant = 2 THEN v.fields[1] ELSE 0)
    /\ (IsRead /\ def.kind = "CurrentableTime" /\ res.value.variant = 2) =>
          res.value.fields[1] = read_from(4, buf, res.start)

\* C12: a read that needs more bytes than remain in the input returns an
\* UnexpectedEof error: it never panics and never goes past the end of the
\* input; the read of a Struct or of a CurrentableTime that is given fewer
\* bytes than were written for it ends in UnexpectedEof.
C12_UnexpectedEof ==
    pc = "read" =>
        /\ res.status # "panic"
        /\ res.status = "ok" => res.pos <= Len(buf) + 1
        /\ (origin = "truncated" /\ def.kind \in {"Struct", "CurrentableTime"}) =>
              res.status = "UnexpectedEof"

\* The bytes an item is declared to take on the wire: the little-endian
\* value of a field or of a let item's source expression, one zero byte, or
\* as many zero bytes as the source expression of an array of unused bytes.
ExpectedItem(item, i, fields) ==
    CASE item.kind = "Field" -> write_to(item.width, fields[i])
      [] item.kind = "Let" -> write_to(item.width, SourceValue(item.source, fields))
      [] item.kind = "Unit" -> << 0 >>
      [] OTHER -> [k \in 1..SourceValue(item.source, fields) |-> 0]

\* The offset of item i among the items that follow the header: the sizes of
\* the items declared before it, without those flagged metabyte when skip.
BodyOffset(items, i, fields, skip) ==
    Elements_datasize(SubSeq(items, 1, i - 1), 1, fields, skip)

\* body consists of the items in declaration order, each at the offset where
\* the items declared before it end (with skip, without the metabyte item).
ItemsInOrder(items, fields, body, skip) ==
    /\ Len(body) = Elements_datasize(items, 1, fields, skip)
    /\ \A i \in DOMAIN items :
          ~(skip /\ is_metabyte(items[i])) =>
              SubSeq(body, BodyOffset(items, i, fields, skip) + 1,
                           BodyOffset(items, i, fields, skip)
                             + Element_datasize(items[i], fields))
                = ExpectedItem(items[i], i, fields)

\* C13: a Request that declares a minor opcode never serializes a metabyte
\* item: the second header byte carries the minor opcode, the header is 4
\* bytes, and the bytes after it are the items that are not flagged metabyte.
C13_MinorOpcodeExcludesMetabyte ==
    (IsWritten /\ def.kind = "Request" /\ def.minor) =>
        /\ buf[2] = minor_opcode
        /\ Len(hdr.metabyte) = 1
        /\ Len(buf) = 4 + Elements_datasize(def.items, 1, v.fields, TRUE)
        /\ ItemsInOrder(def.items, v.fields, hdr.items, TRUE)

\* The fields that a read returned were taken from the bytes in declaration
\* order: each field from the offset where the items declared before it end,
\* counted from the first byte after the header, and the cursor is left
\* after the last item.
ItemsReadInOrder(items, skip, bodyStart) ==
    /\ \A i \in DOMAIN items :
          (items[i].kind = "Field" /\ ~(skip /\ is_metabyte(items[i]))) =>
              res.value.fields[i]
                = read_from(items[i].width, buf,
                      bodyStart + BodyOffset(items, i, res.value.fields, skip))
    /\ res.pos = bodyStart + Elements_datasize(items, 1, res.value.fields, skip)

\* C14: in every Struct, Request, Reply, Event and enum variant, the items
\* that are not consumed into the header are written in declaration order
\* (all bytes of an item before all bytes of the items declared after it)
\* and read in that same order; the output of a Struct is its items only,
\* with no header bytes.
C14_DeclarationOrder ==
    /\ (IsWritten /\ def.kind = "Struct") =>
          /\ buf = hdr.items
          /\ ItemsInOrder(def.items, v.fields, buf, FALSE)
    /\ (IsWritten /\ def.kind \in MessageKinds) =>
          /\ ItemsInOrder(def.items, v.fields, hdr.items, TRUE)
          /\ SubSeq(buf, Len(buf) - Len(hdr.items) + 1, Len(buf)) = hdr.items
    /\ (IsWritten /\ def.kind = "Enum") =>
          /\ ItemsInOrder(def.variants[v.variant].items, v.fields, hdr.items, FALSE)
          /\ SubSeq(buf, 2, Len(buf)) = hdr.items
    /\ (pc = "read" /\ res.status = "ok" /\ def.kind = "Struct") =>
          ItemsReadInOrder(def.items, FALSE, res.start)
    /\ (pc = "read" /\ res.status = "ok" /\ def.kind \in MessageKinds) =>
          ItemsReadInOrder(def.items, TRUE,
              res.start + res.consumed.metabyte + res.consumed.sequence
                + res.consumed.length)
    /\ (pc = "read" /\ res.status = "ok" /\ def.kind = "Enum") =>
          ItemsReadInOrder(def.variants[res.value.variant].items, FALSE,
              res.start + 1)

\* C14 witness: a Struct of a u32 field and then a u8 field was written and
\* read back.
C14_Witness ==
    /\ IsRead /\ def.kind = "Struct" /\ res.status = "ok"
    /\ Len(def.items) = 2
    /\ def.items[1].kind = "Field" /\ def.items[1].width = 4
    /\ def.items[2].kind = "Field" /\ def.items[2].width = 1
    /\ v.fields = << 16909060, 7 >>
    /\ buf = << 4, 3, 2, 1, 7 >>
    /\ res.value = v

(***************************************************************************)
(* Unused bytes and the length field on decode.                            *)
(***************************************************************************)
\* What the generated reader of definition d returns for the bytes b.
ReadOf(d, b, start) ==
    CASE d.kind = "Struct" -> Struct_read(d, b, start)
      [] d.kind = "Request" -> Request_read(d, b, start)
      [] d.kind = "Reply" -> Reply_read(d, b, start)
      [] d.kind = "Event" -> Event_read(d, b, start)
      [] d.kind = "Enum" -> Enum_read(d, b, start)
      [] OTHER -> CurrentableTime_read_from(b, start)

\* Where the items after the header start in a read that returned r.
BodyStart(r) ==
    r.start + r.consumed.metabyte + r.consumed.sequence + r.consumed.length

\* The positions at which the bytes read differ from the bytes written.
TamperedAt == {p \in DOMAIN buf : buf[p] # sent[p]}

\* The positions of the bytes that a read returning r skipped for the items
\* of the given kind (a metabyte item of a message sits at the first byte
\* read).
SkippedFor(d, r, kind) ==
    LET skip == d.kind \in MessageKinds
        f == r.value.fields
    IN  UNION {{BodyStart(r) + BodyOffset(d.items, i, f, skip) + k :
                    k \in 0..(Element_datasize(d.items[i], f) - 1)} :
                 i \in {j \in DOMAIN d.items :
                          /\ d.items[j].kind = kind
                          /\ ~(skip /\ is_metabyte(d.items[j]))}}
        \cup (IF /\ skip
                 /\ ~d.minor
                 /\ MetabyteIndex(d.items) # 0
                 /\ d.items[MetabyteIndex(d.items)].kind = kind
              THEN {r.start} ELSE {})

\* C15: a single unused byte always takes exactly one byte: write emits one
\* 0 byte for it and read advances the cursor by exactly one byte, and the
\* message decoded is the same whatever value the skipped byte holds.
C15_UnitIsOneByte ==
    /\ (IsWritten /\ def.kind \in {"Struct"} \cup MessageKinds) =>
          LET skip == def.kind \in MessageKinds
          IN  /\ \A i \in DOMAIN def.items :
                    (def.items[i].kind = "Unit" /\ ~(skip /\ is_metabyte(def.items[i]))) =>
                        /\ BodyOffset(def.items, i + 1, v.fields, skip)
                             = BodyOffset(def.items, i, v.fields, skip) + 1
                        /\ hdr.items[BodyOffset(def.items, i, v.fields, skip) + 1] = 0
              /\ Len(hdr.items) = BodyOffset(def.items, Len(def.items) + 1, v.fields, skip)
              /\ (/\ skip
                  /\ ~def.minor
                  /\ MetabyteIndex(def.items) # 0
                  /\ def.items[MetabyteIndex(def.items)].kind = "Unit") =>
                        hdr.metabyte = << 0 >>
    /\ (pc = "read" /\ res.status = "ok" /\ def.kind \in {"Struct"} \cup MessageKinds) =>
          res.pos = BodyStart(res)
                      + BodyOffset(def.items, Len(def.items) + 1, res.value.fields,
                                   def.kind \in MessageKinds)
    /\ (/\ pc = "read"
        /\ origin = "tampered"
        /\ ReadOf(def, sent, res.start).status = "ok"
        /\ TamperedAt \subseteq SkippedFor(def, ReadOf(def, sent, res.start), "Unit")) =>
          res = ReadOf(def, sent, res.start)

\* C15 witness: a Struct of a u8 field of value 7 and a single unused byte
\* was written as 7, 0 and read back from 7, 99.
C15_Witness ==
    /\ pc = "read" /\ origin = "tampered" /\ def.kind = "Struct"
    /\ Len(def.items) = 2
    /\ def.items[1].kind = "Field" /\ def.items[2].kind = "Unit"
    /\ sent = << 7, 0 >>
    /\ buf = << 7, 99 >>
    /\ res.status = "ok"
    /\ res.value.fields[1] = 7
    /\ res.pos = 3

\* The reads that start where the bytes of the header that the reader does
\* not consume end, for the definitions whose header is as long as the
\* reader takes it to be.
AlignedRead ==
    \/ def.kind = "Struct" /\ res.start = 1
    \/ def.kind = "Event" /\ res.start = 2
    \/ def.kind = "Request" /\ ~def.minor /\ res.start = 2

C17_RequestDecodeAfterDispatch ==
    (IsRead /\ def.kind = "Request" /\ res.start = (IF def.minor THEN 3 ELSE 2)) =>
        /\ res.consumed.metabyte = (IF def.minor THEN 0 ELSE 1)
        /\ res.consumed.length = 2
        /\ res.status = "ok"
        /\ res.value = v
        /\ res.pos = Len(buf) + 1

\* The positions of the bytes that a read returning r consumed as the
\* length field.
LengthPositions(r) ==
    {r.start + r.consumed.metabyte + r.consumed.sequence + k :
        k \in 0..(r.consumed.length - 1)}

\* C18: the length field is diagnostic only on decode: for a Request or
\* Reply none of whose items names the length, two inputs that differ only
\* in bytes of the length field decode to equal values (or fail alike) and
\* consume the same number of bytes.
C18_LengthIgnoredOnDecode ==
    (/\ pc = "read"
     /\ origin = "tampered"
     /\ def.kind \in {"Request", "Reply"}
     /\ TamperedAt \subseteq LengthPositions(ReadOf(def, sent, res.start))) =>
        /\ res.status = ReadOf(def, sent, res.start).status
        /\ res.value = ReadOf(def, sent, res.start).value
        /\ res.pos = ReadOf(def, sent, res.start).pos

\* C18 witness: a Request of one u8 field of value 7 was written as
\* 130, 0, 0, 0, 7 and read, after the major opcode, from 130, 0, 0, 99, 7.
C18_Witness ==
    /\ pc = "read" /\ origin = "tampered" /\ def.kind = "Request" /\ ~def.minor
    /\ sent = << 130, 0, 0, 0, 7 >>
    /\ buf = << 130, 0, 0, 99, 7 >>
    /\ res.start = 2
    /\ res.consumed.length = 2
    /\ res.status = "ok"
    /\ res.value.fields = << 7 >>
    /\ res.pos = 6

(***************************************************************************)
(* The rules of the element parser.                                        *)
(***************************************************************************)
\* The elements that were accepted before the element parsed last.
PriorElements ==
    IF parser.result \in {"parsing", "Ok", "unrecognized source argument identifier"}
    THEN SubSeq(parser.elements, 1, Len(parser.elements) - 1)
    ELSE parser.elements

\* The element parsed last is one that the grammar of its kind allows in
\* the definition: a sequence attribute only on a field of a Reply or an
\* Event, no metabyte attribute on an array of unused bytes.
LastIsAllowed ==
    /\ parser.last.sequence =>
          /\ parser.last.kind = "Field"
          /\ parser.definition_type \in {"Reply", "Event"}
    /\ ~(parser.last.kind = "ArrayUnused" /\ parser.last.metabyte)

IsError(result) == result \notin {"none", "parsing", "Ok"}

\* C19: parsing the elements of a message fails with "no more than one
\* metabyte element is allowed per message" as soon as a second element
\* flagged metabyte is parsed, does not fail by this rule for zero or one
\* metabyte element, and no accepted definition has two metabyte elements.
C19_OneMetabyteElement ==
    /\ parser.last # NoElement =>
          (parser.result = "no more than one metabyte element is allowed per message"
             <=> /\ LastIsAllowed
                 /\ parser.last.metabyte
                 /\ \E i \in DOMAIN PriorElements : PriorElements[i].metabyte)
    /\ ~IsError(parser.result) =>
          Cardinality({i \in DOMAIN parser.elements : parser.elements[i].metabyte}) <= 1

\* C19 witness: after a metabyte field and a plain field were accepted, a
\* single unused byte flagged metabyte was parsed and the parse failed.
C19_Witness ==
    /\ parser.result = "no more than one metabyte element is allowed per message"
    /\ Len(parser.elements) = 2
    /\ parser.elements[1].kind = "Field" /\ parser.elements[1].metabyte
    /\ ~parser.elements[2].metabyte
    /\ parser.last.kind = "SingleUnused" /\ parser.last.metabyte

\* C20: parsing the elements of a message fails when a second field flagged
\* sequence is parsed, when a sequence attribute is on a let element, a
\* single unused byte or an array of unused bytes, and when a sequence field
\* is declared in a Struct or a Request; no accepted definition has two
\* sequence fields.
C20_OneSequenceField ==
    /\ (/\ parser.last.kind = "Field"
        /\ parser.last.sequence
        /\ \E i \in DOMAIN PriorElements : PriorElements[i].sequence) =>
          IsError(parser.result)
    /\ (/\ parser.last.kind = "Field"
        /\ parser.last.sequence
        /\ ~parser.last.metabyte
        /\ parser.definition_type \in {"Reply", "Event"}) =>
          (parser.result = "no more than one sequence field is allowed per message"
             <=> \E i \in DOMAIN PriorElements : PriorElements[i].sequence)
    /\ (/\ parser.last.sequence
        /\ parser.last.kind \in {"Let", "SingleUnused", "ArrayUnused"}) =>
          IsError(parser.result)
    /\ (/\ parser.last.sequence
        /\ parser.definition_type \in {"Struct", "Request"}) =>
          IsError(parser.result)
    /\ ~IsError(parser.result) =>
          /\ Cardinality({i \in DOMAIN parser.elements : parser.elements[i].sequence}) <= 1
          /\ \A i \in DOMAIN parser.elements :
                parser.elements[i].sequence =>
                    /\ parser.elements[i].kind = "Field"
                    /\ parser.definition_type \in {"Reply", "Event"}

\* C20 witness: in a Reply, after a sequence field and a let element were
\* accepted, a second field with a sequence attribute was parsed and the
\* parse failed.
C20_Witness ==
    /\ parser.definition_type = "Reply"
    /\ Len(parser.elements) = 2
    /\ parser.elements[1].kind = "Field" /\ parser.elements[1].sequence
    /\ parser.elements[2].kind = "Let"
    /\ parser.last.kind = "Field" /\ parser.last.sequence
    /\ parser.result = "no more than one sequence field is allowed per message"

\* The number of fields among the first n elements accepted.
FieldsBefore(elements, n) ==
    Cardinality({j \in 1..n : elements[j].kind = "Field"})

\* C21: a source argument of a let element may only name an element declared
\* before it: a parse in which a source argument names a field that is never
\* declared, or declared only later in the element list, fails with
\* "unrecognized source argument identifier".
C21_NoForwardReference ==
    /\ parser.result = "Ok" =>
          \A i \in DOMAIN parser.elements :
              (parser.elements[i].kind = "Let" /\ parser.elements[i].arg # 0) =>
                  parser.elements[i].arg <= FieldsBefore(parser.elements, i - 1)
    /\ parser.result = "unrecognized source argument identifier" =>
          \E i \in DOMAIN parser.elements :
              /\ parser.elements[i].kind = "Let"
              /\ parser.elements[i].arg > FieldsBefore(parser.elements, i - 1)

(***************************************************************************)
(* The members of the generated struct.                                    *)
(***************************************************************************)
\* The members a message is to have: `_sequence_` for an Event and for a
\* Reply that did not opt out, then the fields in declaration order.
ExpectedMembers(d) ==
    (IF d.kind = "Event" \/ (d.kind = "Reply" /\ d.sequence)
     THEN << [name |-> "_sequence_", index |-> 0] >> ELSE << >>)
    \o [k \in 1..Cardinality({i \in DOMAIN d.items : d.items[i].kind = "Field"}) |->
          [name |-> "field",
           index |-> CHOOSE i \in DOMAIN d.items :
                       /\ d.items[i].kind = "Field"
                       /\ Cardinality({j \in 1..i : d.items[j].kind = "Field"}) = k]]

\* A let item is written at its declared position as the value of its source
\* expression, and a read consumes it there and does not store it.
LetWrittenNotStored ==
    LET skip == def.kind \in MessageKinds
    IN  /\ \A i \in DOMAIN def.items :
              (def.items[i].kind = "Let" /\ ~(skip /\ is_metabyte(def.items[i]))) =>
                  SubSeq(hdr.items,
                         BodyOffset(def.items, i, v.fields, skip) + 1,
                         BodyOffset(def.items, i, v.fields, skip) + def.items[i].width)
                    = write_to(def.items[i].width,
                               SourceValue(def.items[i].source, v.fields))
        /\ (pc = "read" /\ res.status = "ok") =>
              /\ \A i \in DOMAIN def.items :
                    def.items[i].kind = "Let" => res.value.fields[i] = 0
              /\ res.pos = BodyStart(res)
                    + BodyOffset(def.items, Len(def.items) + 1, res.value.fields, skip)

\* C22: let items are written but not stored: the generated struct
\* definition and its constructor and destructuring pattern contain exactly
\* the fields (and `_sequence_` for an Event and for a Reply that did not opt
\* out), no let item and no unused bytes; a let item is written at its
\* declared position as the value of its source expression, and read there
\* without becoming part of the message.
C22_LetNotStored ==
    (IsWritten /\ def.kind \in {"Struct"} \cup MessageKinds) =>
        /\ Items_to_tokens(def) = ExpectedMembers(def)
        /\ fields_to_tokens(def) = ExpectedMembers(def)
        /\ LetWrittenNotStored

(***************************************************************************)
(* The bits of the bitmasks that must be zero.                             *)
(***************************************************************************)
\* C23: for every flag of the Event bitmask, flag & 0xfe000000 == 0, hence
\* every union of Event flags has the bits of 0xfe000000 all zero.
C23_EventReservedBits ==
    bitmask.type = "Event" =>
        /\ \A flag \in Flags("Event") : DisjointFrom(flag, MustBeZero("Event"))
        /\ DisjointFrom(bitmask.bits, MustBeZero("Event"))

\* C23 witness: the union of KeyPress, FocusChange and OwnerGrabButton.
C23_Witness ==
    /\ bitmask.type = "Event"
    /\ bitmask.count = 3
    /\ bitmask.bits = 1 + 1048576 + 16777216

\* C24: for every flag of PointerEvent, flag & 0xffff8003 == 0, and for
\* every flag of DeviceEvent, flag & 0xffffc0b0 == 0, hence no union of
\* flags of either bitmask sets a bit that must be zero.
C24_PointerDeviceReservedBits ==
    /\ bitmask.type = "PointerEvent" =>
          /\ \A flag \in Flags("PointerEvent") :
                DisjointFrom(flag, MustBeZero("PointerEvent"))
          /\ DisjointFrom(bitmask.bits, MustBeZero("PointerEvent"))
    /\ bitmask.type = "DeviceEvent" =>
          /\ \A flag \in Flags("DeviceEvent") :
                DisjointFrom(flag, MustBeZero("DeviceEvent"))
          /\ DisjointFrom(bitmask.bits, MustBeZero("DeviceEvent"))

\* C25: for every flag of KeyButtonMask, flag & 0xe000 == 0, and for every
\* flag of KeyMask, flag & 0xff00 == 0, hence no union of flags of either
\* bitmask sets a bit that must be zero.
C25_KeyMaskReservedBits ==
    /\ bitmask.type = "KeyButtonMask" =>
          /\ \A flag \in Flags("KeyButtonMask") :
                DisjointFrom(flag, MustBeZero("KeyButtonMask"))
          /\ DisjointFrom(bitmask.bits, MustBeZero("KeyButtonMask"))
    /\ bitmask.type = "KeyMask" =>
          /\ \A flag \in Flags("KeyMask") :
                DisjointFrom(flag, MustBeZero("KeyMask"))
          /\ DisjointFrom(bitmask.bits, MustBeZero("KeyMask"))

(***************************************************************************)
(* CurrentableTime.                                                        *)
(***************************************************************************)
\* C26: for every CurrentableTime value, CurrentTime and Timestamp(t) with
\* t = 0 included, write_to emits exactly data_size() = 4 bytes, CurrentTime
\* as the u32 0, and read_from over those bytes returns a value equal to the
\* one written.
C26_CurrentableTimeRoundTrip ==
    /\ (IsWritten /\ def.kind = "CurrentableTime") =>
          /\ Len(sent) = 4
          /\ Len(sent) = CurrentableTime_data_size(v)
          /\ v.variant = 1 => sent = << 0, 0, 0, 0 >>
    /\ (IsRead /\ def.kind = "CurrentableTime") =>
          /\ res.status = "ok"
          /\ res.value.variant = v.variant
          /\ res.value.fields = v.fields

(***************************************************************************)
(* Items::parse_items.                                                     *)
(***************************************************************************)
\* The attribute lists that an unused bytes item or a let item may have.
AllowedAttributes == {<< >>, << "metabyte" >>}

\* The parse has ended, with Ok or with an error.
ParseItemsEnded == parse_items.result \in {"ok", "error"}

\* C27: Items::parse_items accepts an unused bytes item or a let item only
\* with zero attributes or exactly one metabyte attribute: an item with a
\* non-metabyte attribute or with more than one attribute (a metabyte
\* attribute followed by a second one included) is an error, and no
\* attribute of an accepted item is dropped.
C27_AttributeValidation ==
    \A i \in DOMAIN parse_items.items :
        parse_items.items[i].kind \in {"Unit", "Array", "Let"} =>
            /\ parse_items.declared[i].attributes \in AllowedAttributes
            /\ parse_items.items[i].attributes
                  = parse_items.declared[i].attributes

\* A declared item that parse_items has no reason to reject.
ValidDecl(decl) ==
    \/ decl.kind = "Field"
    \/ decl.kind \in {"Let", "Unit"} /\ decl.attributes \in AllowedAttributes
    \/ decl.kind = "Array" /\ decl.attributes = << >>

\* C28: for any comma-separated list of field, let and unused bytes items,
\* each with or without leading attributes, the loop of parse_items ends
\* and returns one (ItemId, Item) per declared item, in declaration order,
\* leaving no token unconsumed.
C28_EveryItemParsed ==
    (/\ ParseItemsEnded
     /\ \A i \in DOMAIN parse_items.declared : ValidDecl(parse_items.declared[i]))
    => /\ parse_items.result = "ok"
       /\ Len(parse_items.items) = Len(parse_items.declared)
       /\ \A i \in DOMAIN parse_items.items :
             parse_items.items[i].kind = parse_items.declared[i].kind
       /\ parse_items.input = << >>

\* The number of items of the kind among the first n parsed items.
RECURSIVE CountKind(_, _, _)
CountKind(items, kind, n) ==
    IF n = 0 THEN 0
    ELSE CountKind(items, kind, n - 1) + (IF items[n].kind = kind THEN 1 ELSE 0)

\* Two items declared under the same name in the same namespace.
SameDeclaration(x, y) ==
    /\ x.id.type = y.id.type
    /\ x.id.type \in {"Field", "Let"}
    /\ x.id.ident = y.id.ident
    /\ x.id.index = y.id.index

\* C29: the identifiers that ItemId::formatted gives the items of one
\* message are pairwise distinct (a let item and a field never get the same
\* one), unnamed fields are numbered 0, 1, 2 counting only fields, and
\* arrays of unused bytes are numbered counting only arrays of unused bytes.
C29_UniqueIdentifiers ==
    LET items == parse_items.items
    IN  /\ \A i, j \in DOMAIN items :
              (/\ i # j
               /\ ItemId_formatted(items[i].id) # ""
               /\ ~SameDeclaration(items[i], items[j]))
              => ItemId_formatted(items[i].id) # ItemId_formatted(items[j].id)
        /\ \A i \in DOMAIN items :
              /\ (items[i].kind = "Field" /\ ~parse_items.named) =>
                    ItemId_formatted(items[i].id)
                        = "__" \o ToString(CountKind(items, "Field", i - 1)) \o "__"
              /\ items[i].kind = "Array" =>
                    ItemId_formatted(items[i].id)
                        = "_unused_" \o ToString(CountKind(items, "Array", i - 1)) \o "_"

(***************************************************************************)
(* Colliding discriminants.                                                *)
(***************************************************************************)
\* The earliest variant with the resolved discriminant x.
EarliestVariant(variants, x) ==
    CHOOSE n \in VariantsOf(variants, x) :
        \A j \in VariantsOf(variants, x) : n <= j

\* C30: an enum in which two variants resolve to the same discriminant d is
\* accepted; both variants write the byte d, a read of d always selects the
\* earliest-declared of them, and so writing the later variant and reading
\* it back yields the earlier one.
C30_CollidingDiscriminants ==
    /\ (IsWritten /\ def.kind = "Enum") =>
          sent[1] = ResolvedDiscriminant(def.variants, v.variant)
    /\ (pc = "read" /\ def.kind = "Enum" /\ buf # << >>) =>
          LET x == buf[res.start]
          IN  Cardinality(VariantsOf(def.variants, x)) >= 2 =>
                  res.value.variant = EarliestVariant(def.variants, x)
    /\ (IsRead /\ def.kind = "Enum"
            /\ ~EarliestOfDiscriminant(def.variants, v.variant)) =>
          /\ res.value.variant # v.variant
          /\ res.value.variant < v.variant
          /\ ResolvedDiscriminant(def.variants, res.value.variant)
                = ResolvedDiscriminant(def.variants, v.variant)

\* C30 witness: the second of two variants that both resolve to 3 and have
\* no items was written as the byte 3 and read back as the first.
C30_Witness ==
    /\ IsRead
    /\ def.kind = "Enum"
    /\ Len(def.variants) >= 2
    /\ ResolvedDiscriminant(def.variants, 1) = 3
    /\ ResolvedDiscriminant(def.variants, 2) = 3
    /\ v.variant = 2
    /\ sent = << 3 >>
    /\ res.status = "ok"
    /\ res.value.variant = 1

=============================================================================
